---- MODULE Spec2Model ----
(***************************************************************************)
(* A model of the vibe-todo state-management core: the AppState/Action    *)
(* data model and the reducer (src/src/state.hpp), the save and load      *)
(* effects (src/src/state.hpp), the JSON persistence layer                *)
(* (src/src/persistence.cpp) and the store, event loop and host loop set  *)
(* up by main (src/src/main.cpp).                                         *)
(***************************************************************************)
EXTENDS Integers, Sequences, FiniteSets, TLC

VARIABLES
    state,             \* the store's current AppState
    queue,             \* the manual event loop's queue of posted callbacks
    file,              \* what is stored at the data path
    global_data_path,  \* state.hpp's file-scoped persistence path
    notified,          \* the last snapshot handed to the store's watcher
    should_exit,       \* main's flag, set by the watcher
    pc                 \* position of main's UI loop

vars == <<state, queue, file, global_data_path, notified, should_exit, pc>>

(***************************************************************************)
(* Bounds of the model.                                                    *)
(***************************************************************************)
MaxTodos == 2

Texts == {"a"}

\* A text whose bytes are no UTF-8 (63 61 66 E9). The input field and the JSON
\* parser only yield UTF-8, so no state of the program holds it; save_state
\* is defined on it all the same.
NotUtf8 == "caf<E9>"

valid_utf8(text) == text # NotUtf8

(***************************************************************************)
(* Data structures (state.hpp).                                            *)
(***************************************************************************)
TodoItem == [text : Texts, done : BOOLEAN]

RECURSIVE SeqsUpTo(_, _)
SeqsUpTo(S, n) ==
    IF n = 0 THEN {<<>>}
    ELSE LET shorter == SeqsUpTo(S, n - 1)
         IN  shorter \cup {Append(s, x) : s \in {t \in shorter : Len(t) = n - 1}, x \in S}

TodoLists == SeqsUpTo(TodoItem, MaxTodos)

\* A default-constructed AppState.
AppState ==
    [todos |-> <<>>, current_input |-> "", selected_index |-> -1,
     status_message |-> "Ready", exit_requested |-> FALSE]

\* std::optional
nullopt == [has_value |-> FALSE]

Some(v) == [has_value |-> TRUE, value |-> v]

\* `i < v.size()` with i an int and size() a std::size_t: the int is converted
\* to the unsigned type, so a negative i becomes a value of at least 2^63 and
\* is never below the size of a list.
IntLessSize(i, size) == IF i < 0 THEN FALSE ELSE i < size

\* immer::flex_vector::erase(i) and ::set(i, x), on 0-based indices.
erase(v, i) == SubSeq(v, 1, i) \o SubSeq(v, i + 2, Len(v))

set(v, i, x) == [v EXCEPT ![i + 1] = x]

(***************************************************************************)
(* Actions (state.hpp).                                                    *)
(***************************************************************************)
SetInputTextAction(text) == [type |-> "SetInputTextAction", text |-> text]

AddTodoAction == [type |-> "AddTodoAction"]

RemoveSelectedTodoAction == [type |-> "RemoveSelectedTodoAction"]

ToggleSelectedTodoAction == [type |-> "ToggleSelectedTodoAction"]

SelectTodoAction(index) == [type |-> "SelectTodoAction", index |-> index]

RequestSaveAction == [type |-> "RequestSaveAction"]

RequestLoadAction == [type |-> "RequestLoadAction"]

LoadCompleteAction(loaded_state, message) ==
    [type |-> "LoadCompleteAction", loaded_state |-> loaded_state, message |-> message]

SetStatusAction(message) == [type |-> "SetStatusAction", message |-> message]

QuitAction == [type |-> "QuitAction"]

(***************************************************************************)
(* Effects as the reducer returns them: lager::noop, save_effect(state)    *)
(* and load_effect().                                                      *)
(***************************************************************************)
noop == [type |-> "noop"]

SaveEffect(state_to_save) == [type |-> "save_effect", state_to_save |-> state_to_save]

LoadEffect == [type |-> "load_effect"]

(***************************************************************************)
(* The reducer (state.hpp): <<next_state, effect>>.                        *)
(***************************************************************************)
reduceSetInputText(current_state, act) ==
    <<[current_state EXCEPT !.current_input = act.text], noop>>

\* reduceAddTodo without the test for an empty input
reduceAddTodo_NoEmptyCheck(current_state) ==
    LET todos == Append(current_state.todos,
                        [text |-> current_state.current_input, done |-> FALSE])
    IN  <<[current_state EXCEPT !.todos = todos,
                                !.current_input = "",
                                !.selected_index = Len(todos) - 1,
                                !.status_message = "Todo added."], noop>>

\* The add case that puts the new item in front.
reduceAddTodo_Prepend(current_state) ==
    IF current_state.current_input # ""
    THEN LET new_todos == <<[text |-> current_state.current_input, done |-> FALSE]>>
                              \o current_state.todos
         IN  <<[current_state EXCEPT
                    !.todos = new_todos,
                    !.current_input = "",
                    !.selected_index = Len(new_todos) - 1,
                    !.status_message = "Todo added."], noop>>
    ELSE <<[current_state EXCEPT !.status_message = "Input is empty."], noop>>

reduceAddTodo(current_state) ==
    IF current_state.current_input # ""
    THEN LET todos == Append(current_state.todos,
                             [text |-> current_state.current_input, done |-> FALSE])
         IN  <<[current_state EXCEPT !.todos = todos,
                                     !.current_input = "",
                                     !.selected_index = Len(todos) - 1,
                                     !.status_message = "Todo added."], noop>>
    ELSE <<[current_state EXCEPT !.status_message = "Input is empty."], noop>>

\* reduceRemoveSelectedTodo with the toggle's message in the else branch
reduceRemoveSelectedTodo_WrongMessage(current_state) ==
    IF /\ current_state.selected_index >= 0
       /\ IntLessSize(current_state.selected_index, Len(current_state.todos))
    THEN LET todos == erase(current_state.todos, current_state.selected_index)
             selected_index ==
                 IF todos = <<>> THEN -1
                 ELSE IF current_state.selected_index >= Len(todos) THEN Len(todos) - 1
                 ELSE current_state.selected_index
         IN  <<[current_state EXCEPT !.todos = todos,
                                     !.selected_index = selected_index,
                                     !.status_message = "Todo removed."], noop>>
    ELSE <<[current_state EXCEPT !.status_message = "No item selected to toggle."], noop>>

\* reduceRemoveSelectedTodo without the clamp of the selection after the erase
reduceRemoveSelectedTodo_NoClamp(current_state) ==
    IF /\ current_state.selected_index >= 0
       /\ IntLessSize(current_state.selected_index, Len(current_state.todos))
    THEN <<[current_state EXCEPT
                !.todos = erase(current_state.todos, current_state.selected_index),
                !.status_message = "Todo removed."], noop>>
    ELSE <<[current_state EXCEPT !.status_message = "No item selected to remove."], noop>>

\* The remove case that erases the last item instead of the selected one.
reduceRemoveSelectedTodo_RemovesLast(current_state) ==
    IF /\ current_state.selected_index >= 0
       /\ IntLessSize(current_state.selected_index, Len(current_state.todos))
    THEN LET todos == erase(current_state.todos, Len(current_state.todos) - 1)
             selected_index ==
                 IF todos = <<>> THEN -1
                 ELSE IF current_state.selected_index >= Len(todos) THEN Len(todos) - 1
                 ELSE current_state.selected_index
         IN  <<[current_state EXCEPT !.todos = todos,
                                     !.selected_index = selected_index,
                                     !.status_message = "Todo removed."], noop>>
    ELSE <<[current_state EXCEPT !.status_message = "No item selected to remove."], noop>>

reduceRemoveSelectedTodo(current_state) ==
    IF /\ current_state.selected_index >= 0
       /\ IntLessSize(current_state.selected_index, Len(current_state.todos))
    THEN LET todos == erase(current_state.todos, current_state.selected_index)
             selected_index ==
                 IF todos = <<>> THEN -1
                 ELSE IF current_state.selected_index >= Len(todos) THEN Len(todos) - 1
                 ELSE current_state.selected_index
         IN  <<[current_state EXCEPT !.todos = todos,
                                     !.selected_index = selected_index,
                                     !.status_message = "Todo removed."], noop>>
    ELSE <<[current_state EXCEPT !.status_message = "No item selected to remove."], noop>>

\* The toggle case with the flag set rather than flipped.
reduceToggleSelectedTodo_SetsDone(current_state) ==
    IF /\ current_state.selected_index >= 0
       /\ IntLessSize(current_state.selected_index, Len(current_state.todos))
    THEN LET item == current_state.todos[current_state.selected_index + 1]
             updated_item == [item EXCEPT !.done = TRUE]
         IN  <<[current_state EXCEPT
                    !.todos = set(current_state.todos, current_state.selected_index,
                                  updated_item),
                    !.status_message = "Todo toggled."], noop>>
    ELSE <<[current_state EXCEPT !.status_message = "No item selected to toggle."], noop>>

\* The toggle case that leaves the status message alone.
reduceToggleSelectedTodo_NoStatus(current_state) ==
    IF /\ current_state.selected_index >= 0
       /\ IntLessSize(current_state.selected_index, Len(current_state.todos))
    THEN LET item == current_state.todos[current_state.selected_index + 1]
             updated_item == [item EXCEPT !.done = ~item.done]
         IN  <<[current_state EXCEPT
                    !.todos = set(current_state.todos, current_state.selected_index,
                                  updated_item)], noop>>
    ELSE <<[current_state EXCEPT !.status_message = "No item selected to toggle."], noop>>

\* The toggle case that flips the first item, whichever is selected.
reduceToggleSelectedTodo_TogglesFirst(current_state) ==
    IF /\ current_state.selected_index >= 0
       /\ IntLessSize(current_state.selected_index, Len(current_state.todos))
    THEN LET item == current_state.todos[1]
             updated_item == [item EXCEPT !.done = ~item.done]
         IN  <<[current_state EXCEPT
                    !.todos = set(current_state.todos, 0, updated_item),
                    !.status_message = "Todo toggled."], noop>>
    ELSE <<[current_state EXCEPT !.status_message = "No item selected to toggle."], noop>>

reduceToggleSelectedTodo(current_state) ==
    IF /\ current_state.selected_index >= 0
       /\ IntLessSize(current_state.selected_index, Len(current_state.todos))
    THEN LET item == current_state.todos[current_state.selected_index + 1]
             updated_item == [item EXCEPT !.done = ~item.done]
         IN  <<[current_state EXCEPT
                    !.todos = set(current_state.todos, current_state.selected_index,
                                  updated_item),
                    !.status_message = "Todo toggled."], noop>>
    ELSE <<[current_state EXCEPT !.status_message = "No item selected to toggle."], noop>>

\* The select case without the upper bound.
reduceSelectTodo_NoUpperBound(current_state, act) ==
    IF act.index >= 0
    THEN <<[current_state EXCEPT !.selected_index = act.index], noop>>
    ELSE <<current_state, noop>>

reduceSelectTodo(current_state, act) ==
    IF act.index >= -1 /\ IntLessSize(act.index, Len(current_state.todos))
    THEN <<[current_state EXCEPT !.selected_index = act.index], noop>>
    ELSE <<current_state, noop>>

\* reduceRequestSave without the "Saving..." status
reduceRequestSave_NoStatus(current_state) ==
    <<current_state, SaveEffect(current_state)>>

reduceRequestSave(current_state) ==
    <<[current_state EXCEPT !.status_message = "Saving..."], SaveEffect(current_state)>>

\* The load request that only sets the status.
reduceRequestLoad_NoEffect(current_state) ==
    <<[current_state EXCEPT !.status_message = "Loading..."], noop>>

reduceRequestLoad(current_state) ==
    <<[current_state EXCEPT !.status_message = "Loading..."], LoadEffect>>

\* The load-complete case that adopts the whole loaded state.
reduceLoadComplete_AdoptsAll(current_state, act) ==
    LET loaded ==
            IF act.loaded_state.has_value
            THEN act.loaded_state.value
            ELSE current_state
    IN  <<[loaded EXCEPT !.status_message = act.message], noop>>

\* The load-complete case that also takes the loaded state's exit flag.
reduceLoadComplete_AdoptsExit(current_state, act) ==
    LET loaded ==
            IF act.loaded_state.has_value
            THEN [current_state EXCEPT
                      !.todos = act.loaded_state.value.todos,
                      !.selected_index =
                          IF act.loaded_state.value.todos = <<>> THEN -1 ELSE 0,
                      !.exit_requested = act.loaded_state.value.exit_requested]
            ELSE current_state
    IN  <<[loaded EXCEPT !.status_message = act.message], noop>>

reduceLoadComplete(current_state, act) ==
    LET loaded ==
            IF act.loaded_state.has_value
            THEN [current_state EXCEPT
                      !.todos = act.loaded_state.value.todos,
                      !.selected_index =
                          IF act.loaded_state.value.todos = <<>> THEN -1 ELSE 0]
            ELSE current_state
    IN  <<[loaded EXCEPT !.status_message = act.message], noop>>

reduceSetStatus(current_state, act) ==
    <<[current_state EXCEPT !.status_message = act.message], noop>>

\* The quit case that also drops the list.
reduceQuit_ClearsTodos(current_state) ==
    <<[current_state EXCEPT !.todos = <<>>,
                            !.selected_index = -1,
                            !.exit_requested = TRUE,
                            !.status_message = "Exiting..."], noop>>

reduceQuit(current_state) ==
    <<[current_state EXCEPT !.exit_requested = TRUE,
                            !.status_message = "Exiting..."], noop>>

reducer(current_state, action) ==
    CASE action.type = "SetInputTextAction"       -> reduceSetInputText(current_state, action)
      [] action.type = "AddTodoAction"            -> reduceAddTodo(current_state)
      [] action.type = "RemoveSelectedTodoAction" -> reduceRemoveSelectedTodo(current_state)
      [] action.type = "ToggleSelectedTodoAction" -> reduceToggleSelectedTodo(current_state)
      [] action.type = "SelectTodoAction"         -> reduceSelectTodo(current_state, action)
      [] action.type = "RequestSaveAction"        -> reduceRequestSave(current_state)
      [] action.type = "RequestLoadAction"        -> reduceRequestLoad(current_state)
      [] action.type = "LoadCompleteAction"       -> reduceLoadComplete(current_state, action)
      [] action.type = "SetStatusAction"          -> reduceSetStatus(current_state, action)
      [] action.type = "QuitAction"               -> reduceQuit(current_state)

(***************************************************************************)
(* JSON values (nlohmann::json), as far as the codec looks at them.        *)
(***************************************************************************)
JString(s) == [type |-> "string", str |-> s]

JBoolean(b) == [type |-> "boolean", bool |-> b]

JNumber(n) == [type |-> "number", num |-> n]

JArray(elems) == [type |-> "array", elems |-> elems]

\* members: a function from the object's keys to its values
JObject(members) == [type |-> "object", members |-> members]

\* json::contains(key): false for anything that is not an object
contains(j, key) == j.type = "object" /\ key \in DOMAIN j.members

\* The outcome of a call that may throw a nlohmann::json::exception.
Thrown == [ok |-> FALSE]

Returned(v) == [ok |-> TRUE, value |-> v]

(***************************************************************************)
(* JSON serialization helpers (persistence.cpp).                           *)
(***************************************************************************)
to_json_TodoItem(item) ==
    JObject([text |-> JString(item.text), done |-> JBoolean(item.done)])

\* j.at(key).get_to(field): throws unless j is an object that has the key and
\* the value has the field's JSON type.
\* from_json(TodoItem) that reads the text only and leaves done at its default
from_json_TodoItem_DoneDropped(j) ==
    IF contains(j, "text") /\ j.members.text.type = "string"
    THEN Returned([text |-> j.members.text.str, done |-> FALSE])
    ELSE Thrown

from_json_TodoItem(j) ==
    IF /\ contains(j, "text") /\ j.members.text.type = "string"
       /\ contains(j, "done") /\ j.members.done.type = "boolean"
    THEN Returned([text |-> j.members.text.str, done |-> j.members.done.bool])
    ELSE Thrown

to_json_AppState(st) ==
    JObject([todos |-> JArray([i \in 1..Len(st.todos) |-> to_json_TodoItem(st.todos[i])])])

\* from_json(AppState) that throws when "todos" is missing or no array
from_json_AppState_Strict(j) ==
    IF ~(contains(j, "todos") /\ j.members.todos.type = "array")
    THEN Thrown
    ELSE LET elems == j.members.todos.elems
             items == [i \in 1..Len(elems) |-> from_json_TodoItem(elems[i])]
             todos == [i \in 1..Len(elems) |-> items[i].value]
         IN  IF \E i \in 1..Len(elems) : ~items[i].ok
             THEN Thrown
             ELSE Returned([todos |-> todos,
                            current_input |-> "",
                            selected_index |-> IF todos = <<>> THEN -1 ELSE 0,
                            status_message |-> "State loaded.",
                            exit_requested |-> FALSE])

\* from_json(AppState) that keeps the records it could decode
from_json_AppState_SkipsBadRecords(j) ==
    LET isList == contains(j, "todos") /\ j.members.todos.type = "array"
        elems  == IF isList THEN j.members.todos.elems ELSE <<>>
        good   == SelectSeq(elems, LAMBDA e : from_json_TodoItem(e).ok)
        todos  == [i \in 1..Len(good) |-> from_json_TodoItem(good[i]).value]
    IN  Returned([todos |-> todos,
                  current_input |-> "",
                  selected_index |-> IF todos = <<>> THEN -1 ELSE 0,
                  status_message |-> "State loaded.",
                  exit_requested |-> FALSE])

from_json_AppState(j) ==
    LET isList == contains(j, "todos") /\ j.members.todos.type = "array"
        elems  == IF isList THEN j.members.todos.elems ELSE <<>>
        items  == [i \in 1..Len(elems) |-> from_json_TodoItem(elems[i])]
        todos  == [i \in 1..Len(elems) |-> items[i].value]
    IN  IF \E i \in 1..Len(elems) : ~items[i].ok
        THEN Thrown
        ELSE Returned([todos |-> todos,
                       current_input |-> "",
                       selected_index |-> IF todos = <<>> THEN -1 ELSE 0,
                       status_message |-> "State loaded.",
                       exit_requested |-> FALSE])

(***************************************************************************)
(* The file at the data path and the outcomes of the stream operations.    *)
(***************************************************************************)
NoFile == [kind |-> "absent"]

\* a file whose text is not a JSON document (an empty or a cut-off file too)
Unparseable == [kind |-> "unparseable"]

\* j.dump(4) written out: a file that parses back to j
dump(j) == [kind |-> "json", doc |-> j]

\* ifs >> j
parse(f) == IF f.kind = "json" THEN Returned(f.doc) ELSE Thrown

DataPath == "todos.json"

\* opening the stream fails / the stream goes bad while the text is written
SaveIo == {"ok", "open_fail", "write_fail"}

\* opening the stream fails / std::filesystem::exists cannot determine the
\* file's status (a symlink loop, a directory without search permission)
LoadIo == {"ok", "open_fail", "status_fail"}

\* A std::filesystem::filesystem_error leaving the function.
filesystem_error == [exception |-> "filesystem_error"]

IsException(r) == "exception" \in DOMAIN r

\* j.dump(4) throws type_error.316 on a string that is no UTF-8.
dumps(st) == \A i \in 1..Len(st.todos) : valid_utf8(st.todos[i].text)

(***************************************************************************)
(* Persistence::save_state and load_state (persistence.cpp).               *)
(* save_state: [success, file], the return value and the file afterwards.  *)
(***************************************************************************)
\* save_state that writes a document with an empty list
save_state_WritesEmptyList(path, st, f, io) ==
    LET j == to_json_AppState(AppState)
    IN  CASE io = "open_fail"  -> [success |-> FALSE, file |-> f]
          [] ~dumps(st)        -> [success |-> FALSE, file |-> Unparseable]
          [] io = "write_fail" -> [success |-> TRUE,  file |-> Unparseable]
          [] OTHER             -> [success |-> TRUE,  file |-> dump(j)]

\* The stream is opened, which empties the file, before j.dump(4) runs: when
\* dump throws, the catch returns false and the file stays empty.
save_state(path, st, f, io) ==
    LET j == to_json_AppState(st)
    IN  CASE io = "open_fail"  -> [success |-> FALSE, file |-> f]
          [] ~dumps(st)        -> [success |-> FALSE, file |-> Unparseable]
          [] io = "write_fail" -> [success |-> TRUE,  file |-> Unparseable]
          [] OTHER             -> [success |-> TRUE,  file |-> dump(j)]

\* std::filesystem::exists(path) stands before the try: its
\* filesystem_error leaves load_state.
load_state(path, f, io) ==
    IF io = "status_fail" THEN filesystem_error
    ELSE IF f = NoFile THEN nullopt
    ELSE IF io = "open_fail" THEN nullopt
    ELSE LET j == parse(f)
         IN  IF ~j.ok THEN nullopt
             ELSE LET loaded_state == from_json_AppState(j.value)
                  IN  IF loaded_state.ok THEN Some(loaded_state.value) ELSE nullopt

(***************************************************************************)
(* The effects (state.hpp): [dispatched, file], the actions the effect     *)
(* dispatches through its context, in order, and the file afterwards;      *)
(* load_effect also [threw], whether an exception left it.                 *)
(***************************************************************************)
\* save_effect that goes to save_state without looking at the path
save_effect_NoPathCheck(state_to_save, path, f, io) ==
    LET saved == save_state(path, state_to_save, f, io)
        msg   == IF saved.success THEN "State saved successfully."
                 ELSE "ERROR saving state!"
    IN  [dispatched |-> <<SetStatusAction(msg)>>, file |-> saved.file]

save_effect(state_to_save, path, f, io) ==
    IF path = ""
    THEN [dispatched |-> <<SetStatusAction("ERROR: Save path not configured.")>>,
          file |-> f]
    ELSE LET saved == save_state(path, state_to_save, f, io)
             msg   == IF saved.success THEN "State saved successfully."
                      ELSE "ERROR saving state!"
         IN  [dispatched |-> <<SetStatusAction(msg)>>, file |-> saved.file]

load_effect(path, f, io) ==
    IF path = ""
    THEN [dispatched |-> <<LoadCompleteAction(nullopt, "ERROR: Load path not configured.")>>,
          file |-> f, threw |-> FALSE]
    ELSE LET loaded_state_opt == load_state(path, f, io)
         IN  IF IsException(loaded_state_opt)
             THEN [dispatched |-> <<>>, file |-> f, threw |-> TRUE]
             ELSE LET msg == IF loaded_state_opt.has_value
                             THEN "State loaded successfully."
                             ELSE "ERROR loading state or file not found."
                  IN  [dispatched |-> <<LoadCompleteAction(loaded_state_opt, msg)>>,
                       file |-> f, threw |-> FALSE]

(***************************************************************************)
(* main (main.cpp): the initial state, from the load at startup.           *)
(***************************************************************************)
initial_state(initial_state_opt) ==
    LET loaded == IF initial_state_opt.has_value
                  THEN [initial_state_opt.value EXCEPT !.status_message = "State loaded."]
                  ELSE [AppState EXCEPT !.status_message = "Ready (new list)."]
    IN  [loaded EXCEPT !.exit_requested = FALSE]

(***************************************************************************)
(* What the file may hold when the program starts: nothing, text that is   *)
(* no JSON, a document written by an earlier save, or a JSON document of   *)
(* another shape.                                                          *)
(***************************************************************************)
SavedDocuments == {to_json_AppState([AppState EXCEPT !.todos = l]) : l \in TodoLists}

GoodItem == to_json_TodoItem([text |-> "a", done |-> TRUE])

ForeignDocuments ==
    { JObject([tasks |-> JArray(<<GoodItem>>)]),                    \* no "todos" key
      JObject([todos |-> JString("a")]),                            \* "todos" is no array
      JArray(<<GoodItem>>),                                         \* no object at all
      JObject([todos |-> JArray(<<GoodItem>>), extra |-> JNumber(1)]),
      JObject([todos |-> JArray(<<JObject([text |-> JString("a")])>>)]),
      JObject([todos |-> JArray(<<GoodItem,
                  JObject([text |-> JNumber(1), done |-> JBoolean(FALSE)])>>)]),
      JObject([todos |-> JArray(<<JObject([text |-> JString("a"),
                                           done |-> JString("yes")])>>)]) }

InitialFiles ==
    {NoFile, Unparseable} \cup {dump(j) : j \in SavedDocuments \cup ForeignDocuments}

(***************************************************************************)
(* What a collaborator may put into the actions it dispatches.             *)
(***************************************************************************)
Messages == {"note"}

\* Loaded states a LoadCompleteAction may carry: any list, with a selection
\* and an exit flag of their own.
Snapshots ==
    {Some([AppState EXCEPT !.todos = l, !.selected_index = MaxTodos, !.exit_requested = e]) :
        l \in TodoLists, e \in BOOLEAN}

(***************************************************************************)
(* The store (lager::make_store with the manual event loop, main.cpp).     *)
(* dispatch posts a callback that reduces the action, posts the effect the *)
(* reducer returned and notifies the watcher.  The manual loop runs a      *)
(* callback posted to an empty queue at once and the callbacks posted      *)
(* meanwhile after it, in order; post returns when the queue is empty.     *)
(***************************************************************************)
ActionItem(action, origin) == [kind |-> "action", action |-> action, origin |-> origin]

EffectItem(effect) == [kind |-> "effect", effect |-> effect]

RECURSIVE ActionItems(_, _)
ActionItems(actions, origin) ==
    IF actions = <<>> THEN <<>>
    ELSE <<ActionItem(Head(actions), origin)>> \o ActionItems(Tail(actions), origin)

\* main up to its loop: the load at startup has no try around it, so an
\* exception leaving load_state terminates the program before the store is
\* made (state then stands for nothing but a default AppState).
Startup(f, io) ==
    LET initial_state_opt == load_state(DataPath, f, io)
    IN  /\ file = f
        /\ IF IsException(initial_state_opt)
           THEN state = AppState /\ pc = "terminated"
           ELSE state = initial_state(initial_state_opt) /\ pc = "render"

Init ==
    /\ global_data_path = DataPath
    /\ \E f \in InitialFiles, io \in LoadIo : Startup(f, io)
    /\ queue = <<>>
    /\ notified = nullopt
    /\ should_exit = FALSE

\* The callback dispatch posts: reduce, post the effect, notify the watcher
\* (main's lambda, which raises should_exit) if the state changed.  `rest` is
\* the queue behind the callback.
apply(action, rest) ==
    LET result == reducer(state, action)
        posted == IF result[2] = noop THEN <<>> ELSE <<EffectItem(result[2])>>
    IN  /\ state' = result[1]
        /\ queue' = rest \o posted
        /\ IF result[1] # state
           THEN /\ notified' = Some(result[1])
                /\ should_exit' = (should_exit \/ result[1].exit_requested)
           ELSE UNCHANGED <<notified, should_exit>>
        /\ UNCHANGED <<file, global_data_path, pc>>

\* store.dispatch(action) is called by renderUI while the loop is idle, so the
\* posted callback runs at once.
InRenderUI == pc = "render" /\ queue = <<>>

DispatchSetInputText ==
    /\ InRenderUI
    /\ \E t \in Texts \cup {""} : apply(SetInputTextAction(t), <<>>)

DispatchAddTodo ==
    /\ InRenderUI
    /\ state.current_input # "" => Len(state.todos) < MaxTodos
    /\ apply(AddTodoAction, <<>>)

DispatchRemoveSelectedTodo ==
    /\ InRenderUI
    /\ apply(RemoveSelectedTodoAction, <<>>)

DispatchToggleSelectedTodo ==
    /\ InRenderUI
    /\ apply(ToggleSelectedTodoAction, <<>>)

DispatchSelectTodo ==
    /\ InRenderUI
    /\ \E i \in -2..MaxTodos : apply(SelectTodoAction(i), <<>>)

DispatchRequestSave ==
    /\ InRenderUI
    /\ apply(RequestSaveAction, <<>>)

DispatchRequestLoad ==
    /\ InRenderUI
    /\ apply(RequestLoadAction, <<>>)

DispatchLoadComplete ==
    /\ InRenderUI
    /\ \E opt \in Snapshots \cup {nullopt}, m \in Messages :
          apply(LoadCompleteAction(opt, m), <<>>)

DispatchSetStatus ==
    /\ InRenderUI
    /\ \E m \in Messages : apply(SetStatusAction(m), <<>>)

DispatchQuit ==
    /\ InRenderUI
    /\ apply(QuitAction, <<>>)

\* The loop runs the callback of an action that an effect dispatched.
RunPostedAction ==
    /\ queue # <<>>
    /\ Head(queue).kind = "action"
    /\ apply(Head(queue).action, Tail(queue))

\* The loop runs the callback posted for an effect, with the store's context.
RunSaveEffect ==
    /\ queue # <<>>
    /\ Head(queue).kind = "effect"
    /\ Head(queue).effect.type = "save_effect"
    /\ \E io \in SaveIo :
          LET ran == save_effect(Head(queue).effect.state_to_save, global_data_path, file, io)
          IN  /\ file' = ran.file
              /\ queue' = Tail(queue) \o ActionItems(ran.dispatched, "save_effect")
    /\ UNCHANGED <<state, global_data_path, notified, should_exit, pc>>

RunLoadEffect ==
    /\ queue # <<>>
    /\ Head(queue).kind = "effect"
    /\ Head(queue).effect.type = "load_effect"
    /\ \E io \in LoadIo :
          LET ran == load_effect(global_data_path, file, io)
          IN  /\ file' = ran.file
              /\ IF ran.threw
                 THEN \* the exception leaves the event loop, store.dispatch,
                      \* renderUI and main, which has no try around its loop
                      queue' = <<>> /\ pc' = "terminated"
                 ELSE /\ queue' = Tail(queue) \o ActionItems(ran.dispatched, "load_effect")
                      /\ pc' = pc
    /\ UNCHANGED <<state, global_data_path, notified, should_exit>>

\* main's loop, while (!should_exit) { ... renderUI(store); ... }: renderUI
\* returns and the frame is drawn; then the loop tests the watcher's flag and
\* either starts the next frame or ends.
EndFrame ==
    /\ pc = "render"
    /\ queue = <<>>
    /\ pc' = "test"
    /\ UNCHANGED <<state, queue, file, global_data_path, notified, should_exit>>

\* The loop test that does not look at the watcher's flag.
LoopTest_NeverStops ==
    /\ pc = "test"
    /\ pc' = "render"
    /\ UNCHANGED <<state, queue, file, global_data_path, notified, should_exit>>

LoopTest ==
    /\ pc = "test"
    /\ pc' = IF should_exit THEN "done" ELSE "render"
    /\ UNCHANGED <<state, queue, file, global_data_path, notified, should_exit>>

Next ==
    \/ DispatchSetInputText
    \/ DispatchAddTodo
    \/ DispatchRemoveSelectedTodo
    \/ DispatchToggleSelectedTodo
    \/ DispatchSelectTodo
    \/ DispatchRequestSave
    \/ DispatchRequestLoad
    \/ DispatchLoadComplete
    \/ DispatchSetStatus
    \/ DispatchQuit
    \/ RunPostedAction
    \/ RunSaveEffect
    \/ RunLoadEffect
    \/ EndFrame
    \/ LoopTest

Spec == Init /\ [][Next]_vars

\* The loop runs the posted callbacks until the queue is empty before the
\* dispatch that started it returns.
RunLoop == RunPostedAction \/ RunSaveEffect \/ RunLoadEffect

\* renderUI dispatches finitely many actions and returns, and the loop goes on
\* to its test.
FairSpec ==
    Spec /\ WF_vars(RunLoop) /\ SF_vars(EndFrame) /\ WF_vars(LoopTest)

\* state.hpp taken by itself: global_data_path is empty until
\* initialize_persistence_path is called; main's own load uses its data_path.
InitNoPath ==
    /\ global_data_path = ""
    /\ \E f \in InitialFiles, io \in LoadIo : Startup(f, io)
    /\ queue = <<>>
    /\ notified = nullopt
    /\ should_exit = FALSE

\* The paths a host may configure: none, or the data file's.
Paths == {"", DataPath}

\* initialize_persistence_path(path), which a host of state.hpp may call
\* whenever it has control, that is, between two dispatches.
InitializePersistencePath ==
    /\ InRenderUI
    /\ \E path \in Paths : global_data_path' = path
    /\ UNCHANGED <<state, queue, file, notified, should_exit, pc>>

NextAnyPath == Next \/ InitializePersistencePath

SpecAnyPath == (Init \/ InitNoPath) /\ [][NextAnyPath]_vars

TypeOK ==
    /\ state.todos \in TodoLists
    /\ state.selected_index \in -1..MaxTodos
    /\ Len(queue) <= 1
    /\ pc \in {"render", "test", "done", "terminated"}

(***************************************************************************)
(* Properties.                                                             *)
(***************************************************************************)

\* The action at the head of the queue that the effect `origin` dispatched,
\* if there is one.
FollowUpQueued(origin) ==
    /\ queue # <<>>
    /\ Head(queue).kind = "action"
    /\ Head(queue).origin = origin

\* C1: bounds invariant. In the initial state and after every action,
\* -1 <= selected_index < len(todos), and an empty list has no selection.
C1_BoundsInvariant ==
    /\ -1 <= state.selected_index
    /\ state.selected_index < Len(state.todos)
    /\ (Len(state.todos) = 0 => state.selected_index = -1)

\* An item was removed from a full list and the selection is on the last of
\* the items that are left.
C1_Witness ==
    /\ state.status_message = "Todo removed."
    /\ Len(state.todos) = MaxTodos - 1
    /\ state.selected_index = Len(state.todos) - 1

\* C2: for every i with -1 <= i < len(todos), reducing SelectTodoAction(i)
\* yields a state whose selected_index is i; SelectTodoAction(-1) clears the
\* selection.
C2_SelectSetsIndex ==
    \A i \in -1..(Len(state.todos) - 1) :
        reducer(state, SelectTodoAction(i))[1].selected_index = i

\* C3: no queue jumping. While the action a save or load effect dispatched
\* waits in the queue, the request that produced the effect has already
\* updated the state to "Saving..."/"Loading..." and the watcher has been
\* handed that very snapshot; nothing else is queued before or behind it.
C3_NoQueueJumping ==
    \A k \in 1..Len(queue) :
        queue[k].kind = "action" =>
            /\ queue = <<queue[k]>>
            /\ notified = Some(state)
            /\ queue[k].origin = "save_effect" =>
                  /\ queue[k].action.type = "SetStatusAction"
                  /\ state.status_message = "Saving..."
            /\ queue[k].origin = "load_effect" =>
                  /\ queue[k].action.type = "LoadCompleteAction"
                  /\ state.status_message = "Loading..."
            /\ queue[k].origin \in {"save_effect", "load_effect"}

\* A save has run and its SetStatusAction waits to be reduced.
C3_Witness ==
    /\ FollowUpQueued("save_effect")
    /\ notified = Some(state)
    /\ state.status_message = "Saving..."

\* The loop is about to run the callback of an effect.
EffectQueued(type) ==
    /\ queue # <<>>
    /\ Head(queue).kind = "effect"
    /\ Head(queue).effect.type = type

SaveOutcomeMessages ==
    {"State saved successfully.", "ERROR saving state!", "ERROR: Save path not configured."}

LoadOutcomeMessages ==
    {"State loaded successfully.", "ERROR loading state or file not found.",
     "ERROR: Load path not configured."}

\* C4: every executed effect dispatches exactly one follow-up action, on every
\* outcome: running a save effect leaves exactly one SetStatusAction in its
\* place in the queue, running a load effect exactly one LoadCompleteAction.
\* Every request is followed by exactly one completion: while something is
\* queued the loop can take a step, the step after the effect reduces its
\* follow-up, whose message becomes the status, and leaves the queue empty.
C4_ExactlyOneFollowUp ==
    /\ [](queue # <<>> => ENABLED RunLoop)
    /\ [][(queue # <<>> /\ Head(queue).kind = "effect") =>
            /\ Len(queue') = Len(queue)
            /\ queue'[Len(queue')].kind = "action"
            /\ queue'[Len(queue')].origin = Head(queue).effect.type
            /\ queue'[Len(queue')].action.type =
                  IF Head(queue).effect.type = "save_effect"
                  THEN "SetStatusAction" ELSE "LoadCompleteAction"
            /\ queue'[Len(queue')].action.message \in
                  IF Head(queue).effect.type = "save_effect"
                  THEN SaveOutcomeMessages ELSE LoadOutcomeMessages]_vars
    /\ [][(queue # <<>> /\ Head(queue).kind = "action") =>
            /\ queue' = <<>>
            /\ state'.status_message = Head(queue).action.message]_vars

\* C5: codec round trip. Decoding the document that encodes the task list
\* succeeds and returns the same list: same length, order, texts and flags.
C5_RoundTrip ==
    LET decoded == from_json_AppState(to_json_AppState(state))
    IN  /\ decoded.ok
        /\ decoded.value.todos = state.todos

\* A list with two equal items was saved and loaded back.
C5_Witness ==
    /\ Len(state.todos) = 2
    /\ state.todos[1] = state.todos[2]
    /\ file = dump(to_json_AppState(state))
    /\ state.status_message = "State loaded successfully."

\* A JSON document without the "todos" key, or whose "todos" is no array.
StructurallyInvalid(f) ==
    /\ f.kind = "json"
    /\ ~(contains(f.doc, "todos") /\ f.doc.members.todos.type = "array")

\* C6 as claimed: a load effect on a structurally invalid document dispatches
\* LoadCompleteAction with no loaded state.
C6_InvalidDocumentIsError ==
    (FollowUpQueued("load_effect") /\ StructurallyInvalid(file)) =>
        ~Head(queue).action.loaded_state.has_value

\* C6 as amended: a structurally invalid document decodes to the empty list.
\* load_state returns a state without todos for it, a load effect that reads
\* it dispatches LoadCompleteAction with that state and "State loaded
\* successfully.", and reducing that action empties the list and clears the
\* selection.
C6_InvalidDocumentLoadsEmpty ==
    StructurallyInvalid(file) =>
        LET loaded == load_state(DataPath, file, "ok")
        IN  /\ loaded.has_value
            /\ loaded.value.todos = <<>>
            /\ load_effect(DataPath, file, "ok").dispatched =
                   <<LoadCompleteAction(loaded, "State loaded successfully.")>>
            /\ (FollowUpQueued("load_effect") /\ Head(queue).action.loaded_state.has_value) =>
                   /\ Head(queue).action = LoadCompleteAction(loaded, "State loaded successfully.")
                   /\ reducer(state, Head(queue).action)[1].todos = <<>>
                   /\ reducer(state, Head(queue).action)[1].selected_index = -1
            /\ state.status_message = "State loaded successfully." => state.todos = <<>>

\* The list held items when the load of an invalid document was requested and
\* the action that empties it is about to be reduced.
C6_Witness ==
    /\ StructurallyInvalid(file)
    /\ FollowUpQueued("load_effect")
    /\ Head(queue).action.loaded_state.has_value
    /\ state.todos # <<>>

\* C7: load of a missing file. With no file at the path, the load effect
\* dispatches LoadCompleteAction(nullopt, "ERROR loading state or file not
\* found."), and reducing it changes nothing but the status message.
C7_LoadMissingFile ==
    LET failed == LoadCompleteAction(nullopt, "ERROR loading state or file not found.")
    IN  file = NoFile =>
            /\ \A io \in LoadIo : load_effect(DataPath, file, io).dispatched = <<failed>>
            /\ FollowUpQueued("load_effect") =>
                  /\ Head(queue).action = failed
                  /\ reducer(state, Head(queue).action)[1] =
                         [state EXCEPT !.status_message = failed.message]

\* C8: write failure on save. Success is reported only if the file holds the
\* document of the list: a save whose write failed never dispatches
\* SetStatusAction("State saved successfully."); and the save changes nothing
\* in memory but the status message.
C8_WriteFailureReported ==
    /\ EffectQueued("save_effect") =>
           state = [Head(queue).effect.state_to_save EXCEPT !.status_message = "Saving..."]
    /\ FollowUpQueued("save_effect") =>
           /\ Head(queue).action.message = "State saved successfully." =>
                  file = dump(to_json_AppState(state))
           /\ Head(queue).action.message \in
                  {"State saved successfully.", "ERROR saving state!"}

\* C9: empty-input no-op. With current_input empty, AddTodoAction changes
\* nothing but the status message, which becomes "Input is empty.", and
\* produces no effect.
C9_EmptyInputNoOp ==
    state.current_input = "" =>
        reducer(state, AddTodoAction) =
            <<[state EXCEPT !.status_message = "Input is empty."], noop>>

\* AddTodoAction was reduced with an empty input on a list that holds items.
C9_Witness ==
    /\ state.status_message = "Input is empty."
    /\ state.current_input = ""
    /\ state.todos # <<>>

\* C10: remove with no selection is a no-op. With selected_index -1,
\* RemoveSelectedTodoAction changes nothing but the status message, which
\* becomes "No item selected to remove.", and produces no effect.
C10_RemoveNoSelectionNoOp ==
    state.selected_index = -1 =>
        reducer(state, RemoveSelectedTodoAction) =
            <<[state EXCEPT !.status_message = "No item selected to remove."], noop>>

\* RemoveSelectedTodoAction was reduced with nothing selected.
C10_Witness ==
    /\ state.status_message = "No item selected to remove."
    /\ state.selected_index = -1

\* Actions that change neither todos nor selected_index, as they may come
\* between two toggles.
NeutralActions ==
    {SetInputTextAction(t) : t \in Texts \cup {""}}
        \cup {SetStatusAction(m) : m \in Messages}
        \cup {[type |-> "none"]}

Neutral(current_state, action) ==
    IF action.type = "none" THEN current_state ELSE reducer(current_state, action)[1]

\* C11: toggle is an involution. In every state with a valid selection,
\* reducing ToggleSelectedTodoAction twice, with nothing or only an action
\* that leaves todos and selected_index alone in between, gives back exactly
\* the original todos; after one toggle only the done flag at the selected
\* index differs.
C11_ToggleInvolution ==
    (state.selected_index >= 0 /\ state.selected_index < Len(state.todos)) =>
        \A between \in NeutralActions :
            LET once == reducer(state, ToggleSelectedTodoAction)[1]
                mid == Neutral(once, between)
                twice == reducer(mid, ToggleSelectedTodoAction)[1]
            IN  /\ once.todos[state.selected_index + 1].done
                       = ~state.todos[state.selected_index + 1].done
                /\ mid.todos = once.todos
                /\ mid.selected_index = state.selected_index
                /\ twice.todos = state.todos
                /\ twice.selected_index = state.selected_index

\* A toggle was reduced on the second of two items, which is now done.
C11_Witness ==
    /\ state.status_message = "Todo toggled."
    /\ Len(state.todos) = 2
    /\ state.selected_index = 1
    /\ state.todos[2].done

\* C12: the saved document. Once RequestSaveAction's follow-up
\* SetStatusAction{"State saved successfully."} has been reduced, the file
\* holds a JSON object with a single top-level key, whose array is the
\* encoding, item by item and in order, of the todos that were saved (they are
\* still the state's: nothing but the status changed since); current_input,
\* selected_index, status_message and exit_requested are not written. The key
\* is the one to_json(AppState) writes and from_json(AppState) reads, "todos".
C12_SavedDocumentIsTodos ==
    (state.status_message = "State saved successfully." /\ queue = <<>>) =>
        /\ file.kind = "json"
        /\ file.doc.type = "object"
        /\ DOMAIN file.doc.members = {"todos"}
        /\ file.doc.members["todos"] =
               JArray([i \in 1..Len(state.todos) |->
                           [type |-> "object",
                            members |-> [text |-> JString(state.todos[i].text),
                                         done |-> JBoolean(state.todos[i].done)]]])

\* C13: add with a non-empty input. In every state whose current_input is a
\* non-empty text t, AddTodoAction gives the old todos, each at its position
\* and unchanged, followed by TodoItem{t, false}; current_input becomes empty
\* and selected_index the index of the new last item.
C13_AddAppends ==
    state.current_input # "" =>
        LET next_state == reducer(state, AddTodoAction)[1]
        IN  /\ Len(next_state.todos) = Len(state.todos) + 1
            /\ \A i \in 1..Len(state.todos) : next_state.todos[i] = state.todos[i]
            /\ next_state.todos[Len(state.todos) + 1] =
                   [text |-> state.current_input, done |-> FALSE]
            /\ next_state.current_input = ""
            /\ next_state.selected_index = Len(state.todos)
            /\ next_state.exit_requested = state.exit_requested

\* A second item was added behind one that is done.
C13_Witness ==
    /\ state.status_message = "Todo added."
    /\ Len(state.todos) = 2
    /\ state.todos[1].done /\ ~state.todos[2].done
    /\ state.selected_index = 1
    /\ state.current_input = ""

\* What C14 says of removing position k (0-based) of the list l.
RemovedAt(l, k) == [i \in 1..(Len(l) - 1) |-> IF i <= k THEN l[i] ELSE l[i + 1]]

SelectionAfterRemove(l, k) ==
    IF Len(l) = 1 THEN -1
    ELSE IF k = Len(l) - 1 THEN Len(l) - 2
    ELSE k

\* C14: remove with a valid selection. With 0 <= selected_index < size,
\* RemoveSelectedTodoAction removes exactly the item at selected_index and
\* keeps the others in their order; selected_index becomes -1 if the list is
\* now empty, the new last index if the last item was removed, and stays
\* otherwise. Checked on the current state and, the reducer being a pure
\* function, on the state with each list of up to MaxTodos + 1 items and
\* each selection in it.
C14_RemoveSelected ==
    /\ (state.selected_index >= 0 /\ state.selected_index < Len(state.todos)) =>
           LET next_state == reducer(state, RemoveSelectedTodoAction)[1]
           IN  /\ next_state.todos = RemovedAt(state.todos, state.selected_index)
               /\ next_state.selected_index =
                      SelectionAfterRemove(state.todos, state.selected_index)
    /\ \A l \in SeqsUpTo(TodoItem, MaxTodos + 1) : \A k \in 0..(Len(l) - 1) :
           LET current_state == [state EXCEPT !.todos = l, !.selected_index = k]
               next_state == reducer(current_state, RemoveSelectedTodoAction)[1]
           IN  /\ next_state.todos = RemovedAt(l, k)
               /\ next_state.selected_index = SelectionAfterRemove(l, k)
               /\ next_state.current_input = state.current_input
               /\ next_state.exit_requested = state.exit_requested

\* An item was removed from a list of two: one item, done, is left and is
\* the selected one.
C14_Witness ==
    /\ state.status_message = "Todo removed."
    /\ Len(state.todos) = 1
    /\ state.todos[1].done
    /\ state.selected_index = 0

\* C15: LoadCompleteAction{loaded_state, message}. With a loaded state, todos
\* become its todos and selected_index 0, or -1 if they are empty, whatever
\* the selection was; without one, todos and selected_index stay. Either way
\* status_message becomes the message, current_input and exit_requested
\* stay, and there is no effect.
C15_LoadComplete ==
    \A opt \in Snapshots \cup {nullopt}, m \in Messages \cup LoadOutcomeMessages :
        LET result == reducer(state, LoadCompleteAction(opt, m))
            next_state == result[1]
        IN  /\ result[2] = noop
            /\ next_state.status_message = m
            /\ next_state.current_input = state.current_input
            /\ next_state.exit_requested = state.exit_requested
            /\ opt.has_value =>
                   /\ next_state.todos = opt.value.todos
                   /\ next_state.selected_index =
                          IF opt.value.todos = <<>> THEN -1 ELSE 0
            /\ ~opt.has_value =>
                   /\ next_state.todos = state.todos
                   /\ next_state.selected_index = state.selected_index

\* load_effect's LoadCompleteAction brought in two items while there was text
\* in the input field; the first item is selected and the text is still there.
C15_Witness ==
    /\ state.status_message = "State loaded successfully."
    /\ Len(state.todos) = 2
    /\ state.selected_index = 0
    /\ state.current_input # ""

\* The Action variant, with the parameters drawn from the model's sets.
Action ==
    {SetInputTextAction(t) : t \in Texts \cup {""}}
        \cup {AddTodoAction, RemoveSelectedTodoAction, ToggleSelectedTodoAction}
        \cup {SelectTodoAction(i) : i \in -2..MaxTodos}
        \cup {RequestSaveAction, RequestLoadAction}
        \cup {LoadCompleteAction(opt, m) : opt \in Snapshots \cup {nullopt}, m \in Messages}
        \cup {SetStatusAction(m) : m \in Messages}
        \cup {QuitAction}

\* C16: which actions have an effect. In every state the reducer returns an
\* effect exactly for RequestSaveAction, a save_effect carrying the todos of
\* the state it was reduced in, and for RequestLoadAction, a load_effect; the
\* other eight actions return none. The two requests change nothing but
\* status_message.
C16_EffectsOnlyOnRequests ==
    \A action \in Action :
        LET result == reducer(state, action)
        IN  /\ (result[2] # noop) <=>
                   action.type \in {"RequestSaveAction", "RequestLoadAction"}
            /\ action.type = "RequestSaveAction" =>
                   /\ result[2].type = "save_effect"
                   /\ result[2].state_to_save.todos = state.todos
                   /\ result[1] = [state EXCEPT !.status_message = "Saving..."]
            /\ action.type = "RequestLoadAction" =>
                   /\ result[2] = LoadEffect
                   /\ result[1] = [state EXCEPT !.status_message = "Loading..."]

\* RequestLoadAction was reduced in a state with two items, one selected and
\* text in the input field: its load_effect is in the queue.
C16_Witness ==
    /\ EffectQueued("load_effect")
    /\ state.status_message = "Loading..."
    /\ Len(state.todos) = 2
    /\ state.selected_index = 1
    /\ state.current_input # ""

\* C17: the path was never configured. While global_data_path is empty,
\* save_effect dispatches exactly SetStatusAction{"ERROR: Save path not
\* configured."} and load_effect exactly LoadCompleteAction{nullopt, "ERROR:
\* Load path not configured."}, whatever the file holds and whatever the
\* streams would do, and leave the file as it is; no step changes the file,
\* and neither running an effect nor reducing its follow-up changes todos.
C17_NoPathShortCircuits ==
    /\ [](global_data_path = "" =>
              \A f \in InitialFiles \cup {file} :
                  /\ \A io \in SaveIo :
                         save_effect(state, "", f, io) =
                             [dispatched |->
                                  <<SetStatusAction("ERROR: Save path not configured.")>>,
                              file |-> f]
                  /\ \A io \in LoadIo :
                         load_effect("", f, io) =
                             [dispatched |->
                                  <<LoadCompleteAction(nullopt,
                                        "ERROR: Load path not configured.")>>,
                              file |-> f, threw |-> FALSE])
    /\ [][global_data_path = "" => file' = file]_vars
    /\ [][(global_data_path = "" /\ EffectQueued("save_effect")) =>
              /\ state' = state
              /\ queue' = <<ActionItem(SetStatusAction("ERROR: Save path not configured."),
                                       "save_effect")>>]_vars
    /\ [][(global_data_path = "" /\ EffectQueued("load_effect")) =>
              /\ state' = state
              /\ queue' = <<ActionItem(LoadCompleteAction(nullopt,
                                           "ERROR: Load path not configured."),
                                       "load_effect")>>]_vars
    /\ [][(global_data_path = "" /\ queue # <<>>) =>
              /\ state'.todos = state.todos
              /\ state'.selected_index = state.selected_index]_vars

\* With no path configured and a document in the file, a load was requested
\* and answered with the configuration error; the two items are still there.
C17_Witness ==
    /\ global_data_path = ""
    /\ state.status_message = "ERROR: Load path not configured."
    /\ queue = <<>>
    /\ file.kind = "json"
    /\ Len(state.todos) = 2
    /\ state.selected_index = 1

\* C18: Quit stops the host. Reducing QuitAction sets exit_requested (and the
\* status "Exiting..."), leaves todos, selected_index and current_input alone
\* and has no effect; once exit_requested is set the watcher has been called
\* with that very snapshot and has set should_exit; the loop test that ends
\* the frame in which that happened leaves the loop, so no new frame starts
\* and nothing happens after the loop; and the loop does end, by its test or,
\* when a load requested in the same frame throws, with the program.
C18_QuitStopsHost ==
    /\ [](reducer(state, QuitAction) =
              <<[state EXCEPT !.exit_requested = TRUE,
                              !.status_message = "Exiting..."], noop>>)
    /\ [](state.exit_requested => (should_exit /\ notified = Some(state)))
    /\ [][(state.exit_requested /\ pc = "test") => pc' = "done"]_vars
    /\ [][(state.exit_requested /\ pc # "render") => pc' # "render"]_vars
    /\ [][pc = "done" => FALSE]_vars
    /\ (state.exit_requested ~> pc \in {"done", "terminated"})

\* The loop has ended after QuitAction was reduced with two items in the list.
C18_Witness ==
    /\ pc = "done"
    /\ state.exit_requested
    /\ state.status_message = "Exiting..."
    /\ should_exit
    /\ Len(state.todos) = 2

\* C19: the success messages as the claim words them. After an AddTodoAction
\* with a non-empty input status_message is "Task added", after a
\* RemoveSelectedTodoAction with a valid selection "Task removed.", after a
\* ToggleSelectedTodoAction with a valid selection "Task toggled.".
C19_TaskMessages ==
    /\ state.current_input # "" =>
           reducer(state, AddTodoAction)[1].status_message = "Task added"
    /\ (state.selected_index >= 0 /\ state.selected_index < Len(state.todos)) =>
           /\ reducer(state, RemoveSelectedTodoAction)[1].status_message = "Task removed."
           /\ reducer(state, ToggleSelectedTodoAction)[1].status_message = "Task toggled."

\* C19, with the reducer's strings: after a successful add status_message is
\* "Todo added.", after a successful remove "Todo removed.", after a
\* successful toggle "Todo toggled.".
C19_TodoMessages ==
    /\ state.current_input # "" =>
           reducer(state, AddTodoAction)[1].status_message = "Todo added."
    /\ (state.selected_index >= 0 /\ state.selected_index < Len(state.todos)) =>
           /\ reducer(state, RemoveSelectedTodoAction)[1].status_message = "Todo removed."
           /\ reducer(state, ToggleSelectedTodoAction)[1].status_message = "Todo toggled."

\* The last action reduced was a successful toggle of the only item, which
\* is still selected, so that a remove or another toggle would succeed too.
C19_Witness ==
    /\ state.status_message = "Todo toggled."
    /\ state.selected_index = 0
    /\ Len(state.todos) = 1
    /\ state.todos[1].done

\* C20: select out of range is ignored. In every state, for every index
\* below -1 or at or beyond the size of todos, SelectTodoAction{index}
\* returns the state as it is, status_message included, and no effect.
C20_SelectOutOfRangeIgnored ==
    \A i \in (-3)..(MaxTodos + 2) :
        (i < -1 \/ i >= Len(state.todos)) =>
            reducer(state, SelectTodoAction(i)) = <<state, noop>>

\* One item, selected, after a toggle: the UI can dispatch SelectTodoAction
\* with the out-of-range indices -2, 1 and 2, and each leaves this state.
C20_Witness ==
    /\ InRenderUI
    /\ Len(state.todos) = 1
    /\ state.selected_index = 0
    /\ state.status_message = "Todo toggled."
    /\ state.current_input # ""
    /\ \A i \in {-2, 1, MaxTodos} : reducer(state, SelectTodoAction(i))[1] = state

\* What C21 says of toggling position k (0-based) of the list l.
ToggledAt(l, k) ==
    [i \in 1..Len(l) |-> IF i = k + 1 THEN [text |-> l[i].text, done |-> ~l[i].done]
                         ELSE l[i]]

\* C21: toggle replaces in place. With a valid selection k,
\* ToggleSelectedTodoAction keeps the size of todos, every text, the done
\* flag of every item but the one at k, selected_index and current_input,
\* and flips the done flag at k; with an invalid selection it leaves todos as
\* they are and sets status_message to "No item selected to toggle.". Checked
\* on the current state and, the reducer being a pure function, on the state
\* with each list of up to MaxTodos + 1 items and each selection from -2 to
\* one beyond its size.
C21_ToggleInPlace ==
    /\ LET result == reducer(state, ToggleSelectedTodoAction)
       IN  IF state.selected_index >= 0 /\ state.selected_index < Len(state.todos)
           THEN /\ result[1].todos = ToggledAt(state.todos, state.selected_index)
                /\ result[1].selected_index = state.selected_index
                /\ result[1].current_input = state.current_input
           ELSE /\ result[1].todos = state.todos
                /\ result[1].status_message = "No item selected to toggle."
    /\ \A l \in SeqsUpTo(TodoItem, MaxTodos + 1) : \A k \in (-2)..(Len(l) + 1) :
           LET current_state == [state EXCEPT !.todos = l, !.selected_index = k]
               next_state == reducer(current_state, ToggleSelectedTodoAction)[1]
           IN  IF k >= 0 /\ k < Len(l)
               THEN /\ Len(next_state.todos) = Len(l)
                    /\ \A i \in 1..Len(l) :
                           /\ next_state.todos[i].text = l[i].text
                           /\ next_state.todos[i].done =
                                  IF i = k + 1 THEN ~l[i].done ELSE l[i].done
                    /\ next_state.selected_index = k
                    /\ next_state.current_input = state.current_input
               ELSE /\ next_state.todos = l
                    /\ next_state.status_message = "No item selected to toggle."

\* The first of two items was toggled to done while there was text in the
\* input field; the second item is as it was added.
C21_Witness ==
    /\ state.status_message = "Todo toggled."
    /\ Len(state.todos) = 2
    /\ state.selected_index = 0
    /\ state.todos[1].done /\ ~state.todos[2].done
    /\ state.current_input # ""

ValidSelection(current_state) ==
    /\ current_state.selected_index >= 0
    /\ current_state.selected_index < Len(current_state.todos)

\* C22: what changes the list. In every state SetInputTextAction,
\* SelectTodoAction, RequestSaveAction, RequestLoadAction, SetStatusAction,
\* QuitAction and LoadCompleteAction without a loaded state return the same
\* todos, as do AddTodoAction with an empty input and the remove and the
\* toggle without a valid selection; SetInputTextAction changes only
\* current_input and SetStatusAction only status_message. Every step of the
\* program that changes todos is the reduction of an AddTodoAction with a
\* non-empty input, of a remove or a toggle with a valid selection, or of a
\* LoadCompleteAction carrying a loaded state.
C22_OnlyFourChangeTodos ==
    /\ [](\A action \in Action :
              LET next_state == reducer(state, action)[1]
              IN  /\ (\/ action.type \in {"SetInputTextAction", "SelectTodoAction",
                                          "RequestSaveAction", "RequestLoadAction",
                                          "SetStatusAction", "QuitAction"}
                      \/ action.type = "LoadCompleteAction" /\ ~action.loaded_state.has_value
                      \/ action.type = "AddTodoAction" /\ state.current_input = ""
                      \/ action.type \in {"RemoveSelectedTodoAction",
                                          "ToggleSelectedTodoAction"}
                             /\ ~ValidSelection(state))
                         => next_state.todos = state.todos
                  /\ action.type = "SetInputTextAction" =>
                         next_state = [state EXCEPT !.current_input = action.text]
                  /\ action.type = "SetStatusAction" =>
                         next_state = [state EXCEPT !.status_message = action.message])
    /\ [][state'.todos # state.todos =>
              \/ state.current_input # "" /\ state' = reducer(state, AddTodoAction)[1]
              \/ ValidSelection(state)
                     /\ state' = reducer(state, RemoveSelectedTodoAction)[1]
              \/ ValidSelection(state)
                     /\ state' = reducer(state, ToggleSelectedTodoAction)[1]
              \/ \E opt \in Snapshots, m \in Messages :
                     state' = reducer(state, LoadCompleteAction(opt, m))[1]
              \/ /\ FollowUpQueued("load_effect")
                 /\ Head(queue).action.type = "LoadCompleteAction"
                 /\ Head(queue).action.loaded_state.has_value
                 /\ state' = reducer(state, Head(queue).action)[1]]_vars

\* QuitAction was reduced in a frame that is still running, and the two
\* items, one of them done, are still in the list.
C22_Witness ==
    /\ pc = "render"
    /\ state.status_message = "Exiting..."
    /\ state.exit_requested
    /\ Len(state.todos) = 2
    /\ state.todos[2].done
    /\ state.selected_index = 1

\* Records that lack "text" or "done" or have them of another type, and a
\* value that is no object at all.
BadRecords ==
    { JObject([done |-> JBoolean(TRUE)]),
      JObject([text |-> JString("a")]),
      JObject([text |-> JNumber(1), done |-> JBoolean(FALSE)]),
      JObject([text |-> JString("a"), done |-> JString("yes")]),
      JObject([text |-> JString("a"), done |-> JNumber(1)]),
      JString("a") }

\* Documents with one bad record, alone or with a good one before it, after
\* it, or both.
DocumentsWithBadRecord ==
    {JObject([todos |-> JArray(pre \o <<bad>> \o post)]) :
        pre \in {<<>>, <<GoodItem>>}, bad \in BadRecords,
        post \in {<<>>, <<GoodItem>>}}

WellFormedRecord(j) ==
    /\ j.type = "object"
    /\ "text" \in DOMAIN j.members /\ j.members["text"].type = "string"
    /\ "done" \in DOMAIN j.members /\ j.members["done"].type = "boolean"

HasBadRecord(f) ==
    /\ f.kind = "json"
    /\ contains(f.doc, "todos") /\ f.doc.members.todos.type = "array"
    /\ \E i \in 1..Len(f.doc.members.todos.elems) :
           ~WellFormedRecord(f.doc.members.todos.elems[i])

LoadFailed == LoadCompleteAction(nullopt, "ERROR loading state or file not found.")

\* C23: a bad record fails the whole load. Decoding a record that lacks
\* "text" or "done", or has one of them of the wrong type, throws; load_state
\* returns no state for a document that holds such a record, wherever it
\* stands among good ones, so load_effect dispatches LoadCompleteAction
\* without a loaded state, and reducing it leaves todos and selected_index as
\* they are. In the program, a load of a file with a bad record is always
\* followed up this way and the follow-up's reduction keeps todos.
C23_BadRecordFailsLoad ==
    /\ [](/\ \A r \in BadRecords : from_json_TodoItem(r) = Thrown
          /\ \A d \in DocumentsWithBadRecord :
                 /\ HasBadRecord(dump(d))
                 /\ load_state(DataPath, dump(d), "ok") = nullopt
                 /\ load_effect(DataPath, dump(d), "ok") =
                        [dispatched |-> <<LoadFailed>>, file |-> dump(d), threw |-> FALSE]
          /\ reducer(state, LoadFailed)[1].todos = state.todos
          /\ reducer(state, LoadFailed)[1].selected_index = state.selected_index)
    /\ []((HasBadRecord(file) /\ FollowUpQueued("load_effect")) =>
              queue = <<ActionItem(LoadFailed, "load_effect")>>)
    /\ [][(HasBadRecord(file) /\ (EffectQueued("load_effect")
                                     \/ FollowUpQueued("load_effect"))) =>
              /\ state'.todos = state.todos
              /\ state'.selected_index = state.selected_index
              /\ file' = file]_vars

\* The file holds a good record followed by a bad one; a load was requested
\* with two items in memory and failed, and the two items are still there.
C23_Witness ==
    /\ HasBadRecord(file)
    /\ Len(file.doc.members.todos.elems) = 2
    /\ WellFormedRecord(file.doc.members.todos.elems[1])
    /\ state.status_message = "ERROR loading state or file not found."
    /\ queue = <<>>
    /\ Len(state.todos) = 2
    /\ state.selected_index = 1

\* The file as a save of the list l that went through leaves it.
SavedFile(l) == dump(to_json_AppState([AppState EXCEPT !.todos = l]))

LoadSucceeded ==
    /\ FollowUpQueued("load_effect")
    /\ Head(queue).action.message = "State loaded successfully."

\* C24: save then load restores the saved list. A save that reports success
\* in a state with todos T leaves the file holding the document of T (or,
\* if the write failed unnoticed, nothing a load can succeed on); no step
\* but a save changes the file, the actions that edit the state included; and
\* a load that succeeds on the file holding the document of T carries T and,
\* reduced, sets todos to T and selected_index to 0, or -1 if T is empty,
\* and keeps current_input.
C24_SaveThenLoad ==
    /\ [][(EffectQueued("save_effect")
               /\ queue' = <<ActionItem(SetStatusAction("State saved successfully."),
                                        "save_effect")>>) =>
              /\ Head(queue).effect.state_to_save.todos = state.todos
              /\ file' \in {SavedFile(state.todos), Unparseable}
              /\ state' = state]_vars
    /\ [][file' # file => EffectQueued("save_effect")]_vars
    /\ [](LoadSucceeded => file # Unparseable)
    /\ [](\A T \in TodoLists :
              (file = SavedFile(T) /\ LoadSucceeded) =>
                  /\ Head(queue).action.loaded_state.has_value
                  /\ Head(queue).action.loaded_state.value.todos = T)
    /\ [][\A T \in TodoLists :
              (file = SavedFile(T) /\ LoadSucceeded) =>
                  state' = [state EXCEPT
                                !.todos = T,
                                !.selected_index = IF T = <<>> THEN -1 ELSE 0,
                                !.status_message = "State loaded successfully."]]_vars

\* A load succeeded on the file of a saved list of two items, the second
\* done: the list is back, the first item is selected, and the text typed
\* before the load is still in the input field.
C24_Witness ==
    /\ state.status_message = "State loaded successfully."
    /\ queue = <<>>
    /\ Len(state.todos) = 2
    /\ state.todos[2].done /\ ~state.todos[1].done
    /\ file = SavedFile(state.todos)
    /\ state.selected_index = 0
    /\ state.current_input # ""

\* C25: exit_requested is monotonic. It is false in the initial state;
\* QuitAction sets it; once it is set, no action resets it, a
\* LoadCompleteAction carrying a loaded state whose own exit_requested is
\* false included, and no step of the program does.
C25_ExitMonotonic ==
    /\ ~state.exit_requested
    /\ [](reducer(state, QuitAction)[1].exit_requested)
    /\ [](state.exit_requested =>
              \A action \in Action : reducer(state, action)[1].exit_requested)
    /\ [](\E opt \in Snapshots :
              /\ ~opt.value.exit_requested
              /\ LoadCompleteAction(opt, "note") \in Action)
    /\ [][state.exit_requested => state'.exit_requested]_vars

\* After QuitAction, in the same frame, a load was requested and succeeded:
\* its loaded state, whose exit_requested is false, brought two items in, and
\* exit_requested is still set.
C25_Witness ==
    /\ state.exit_requested
    /\ state.status_message = "State loaded successfully."
    /\ queue = <<>>
    /\ Len(state.todos) = 2

====
